---------------------------- MODULE Spec2Model ----------------------------
(***************************************************************************)
(* Model of the AudioAnalyzer class of src/js/audioAnalyzer.js, and of the *)
(* MoodEngine, AdvancedVisualizer, ParticleSystem, AudioReactiveSpace and  *)
(* UIManager classes, each with a specification of its own.               *)
(*                                                                         *)
(* Number representation.  The analyser works on JavaScript doubles; the   *)
(* model keeps every quantity as an exact integer in a fixed unit:         *)
(*   - a byte of a frame is an integer 0..255; a normalized magnitude      *)
(*     v / 255 stored in the history is the fraction v / 255 in lowest     *)
(*     terms; inside a sum a magnitude is counted in units of 1/255;       *)
(*   - an energy  totalMagnitude / N  (N = number of bins) is held in      *)
(*     units of 1/(255*N), i.e. as the sum of the bytes of the frame;      *)
(*   - beatThreshold and beatSensitivity are held in tenths (0.6 is 6);    *)
(*   - beatEnergy is held in units of 1/(10*255*N), so that the product    *)
(*     energy * sensitivity is an integer;                                 *)
(*   - stats.spectralFlux holds fluxSum, the sum of the squared bin        *)
(*     differences in units of 1/255^2.  The published value is            *)
(*     sqrt(fluxSum / N); sqrt is strictly increasing and sqrt(0) = 0, so  *)
(*     the published flux is zero exactly when fluxSum is zero and two     *)
(*     fluxes compare as their fluxSums do.                                *)
(*   - a frequency is held in Hz, the bin width being a whole number;      *)
(*   - any other quotient (the average energy, the energy threshold, a     *)
(*     band energy, the centroid, the variance, the zero-crossing rate)    *)
(*     is kept as a fraction [n, d] in lowest terms, d > 0, and compared   *)
(*     by cross multiplication;                                            *)
(*   - stats.spectralSpread holds the fraction under the square root, in   *)
(*     units of binWidth^2;                                                *)
(*   - stats.entropy holds the probabilities p > 0 the sum                 *)
(*     -(p * log2 p) runs over, as fractions in bin order.  The entropy    *)
(*     is 0 when every such p is 1 (log2 1 = 0) or none exists, and        *)
(*     positive otherwise.                                                 *)
(***************************************************************************)
EXTENDS Integers, Sequences, FiniteSets

(***************************************************************************)
(* Bounds of the model.                                                    *)
(***************************************************************************)
\* Capacity of the history.  The source sets 60 (audioAnalyzer.js:29); the
\* model scales the capacity down so that it is exceeded within MaxUpdates.
maxHistoryLength == 2

\* Number of update() calls in one behaviour.
MaxUpdates == 3

\* analyser.frequencyBinCount: the number of bins of a frame (fftSize / 2).
NumBins == 2

\* The sample rate of the audio context the analyser is built on, chosen so
\* that a bin is 30 Hz wide: bin 0 lies below every band, bin 1 in subBass
\* and the bins from 60 Hz on in bass.
DefaultSampleRate == 2 * NumBins * 30

\* A spectrum with one full-scale bin
Spike(bin) == [i \in 1..NumBins |-> IF i = bin THEN 255 ELSE 0]

\* The magnitude spectra getByteFrequencyData delivers: silence, every bin at
\* full scale, and a single full-scale bin at either end of the spectrum.
Spectra ==
  {[i \in 1..NumBins |-> 0], [i \in 1..NumBins |-> 255], Spike(1), Spike(NumBins)}

\* The waveforms getByteTimeDomainData can deliver.
Waveforms == {[i \in 1..NumBins |-> 128], [i \in 1..NumBins |-> IF i % 2 = 1 THEN 255 ELSE 1]}

\* Number of update() calls in a behaviour that varies the sample rate, the
\* bin values and the waveform.
MaxFrames == 2

\* Bin widths in Hz that put the bins on, below and above the band limits
BinWidths == {10, 30, 60, 250, 500, 2000, 6000, 10000, 20000}

\* The sample rates of the audio context giving these bin widths
SampleRates == {2 * NumBins * width : width \in BinWidths}

\* A spectrum with one bin at value v
Single(bin, v) == [i \in 1..NumBins |-> IF i = bin THEN v ELSE 0]

\* Spectra with unequal, equal and faint bins: silence, every bin at 255,
\* every bin at 128, one bin at 255 at either end, the last bin at 1, the
\* first bin at 128 below the others at 255, and the first bin at 255 above
\* the others at 128.
FrameSpectra ==
  { [i \in 1..NumBins |-> 0], [i \in 1..NumBins |-> 255], [i \in 1..NumBins |-> 128],
    Single(1, 255), Single(NumBins, 255), Single(NumBins, 1),
    [i \in 1..NumBins |-> IF i = 1 THEN 128 ELSE 255],
    [i \in 1..NumBins |-> IF i = 1 THEN 255 ELSE 128] }

\* Waveforms around the sign boundary: constant at 128, alternating 255 and
\* 1, alternating 128 and 127, alternating 127 and 128, alternating 128 and
\* 129, and alternating 0 and 127.
FrameWaveforms ==
  { [i \in 1..NumBins |-> 128],
    [i \in 1..NumBins |-> IF i % 2 = 1 THEN 255 ELSE 1],
    [i \in 1..NumBins |-> IF i % 2 = 1 THEN 128 ELSE 127],
    [i \in 1..NumBins |-> IF i % 2 = 1 THEN 127 ELSE 128],
    [i \in 1..NumBins |-> IF i % 2 = 1 THEN 128 ELSE 129],
    [i \in 1..NumBins |-> IF i % 2 = 1 THEN 0 ELSE 127] }

\* What the node delivers in one frame: each of the spectra with the constant
\* waveform, and each of the waveforms with the full-scale spectrum.
FrameInputs ==
  {<<f, [i \in 1..NumBins |-> 128]>> : f \in FrameSpectra}
    \cup {<<[i \in 1..NumBins |-> 255], w>> : w \in FrameWaveforms}

\* Names that Object.prototype gives every object
ObjectPrototypeNames == {"toString", "constructor"}

\* Arguments of getBandEnergy: the band names, a name no object has, the
\* empty name and the names every object inherits.
BandNameInputs ==
  {"subBass", "bass", "lowMid", "mid", "highMid", "treble", "brilliance",
   "nonexistent", ""} \cup ObjectPrototypeNames

\* Arguments of getFrequencyRangeEnergy, in Hz: ranges of some width, of no
\* width, and with the limits exchanged.
RangeInputs == {<<0, 20000>>, <<60, 250>>, <<0, 0>>, <<60, 60>>, <<250, 60>>}

\* Arguments of getSmoothedValue: the value in tenths and the smoothing
\* factor in tenths, 0.7 being the default of the method.
SmoothingInputs == {<<0, 7>>, <<5, 7>>, <<10, 7>>, <<5, 0>>, <<5, 10>>, <<10, 3>>}

\* The last reading of the clock Date.now(), in seconds
MaxTime == 7

\* Arguments of changeMood: the moods, a name no object has and a name every
\* object inherits
MoodInputs == {"calm", "energetic", "heartbreak", "joyful", "toString"}

\* The byte values of the frequency data handed to the visualizer: silence,
\* a fifth of full scale and full scale
Levels == {0, 51, 255}

\* Frequency data for updateAudioData: 256 bins with one level in each of
\* the ranges 0..84, 85..169 and 170..255, an array of 100 bins and an array
\* of no bin
FrequencyInputs ==
  {<<[count |-> 85, value |-> b], [count |-> 85, value |-> m],
     [count |-> 86, value |-> t]>> : b \in Levels, m \in Levels, t \in Levels}
    \cup {<<[count |-> 100, value |-> 255]>>, <<>>}

\* Smoothing factors for setConfig: 0, 0.5, 0.8 and 1
SmoothingFactors == {[n |-> 0, d |-> 1], [n |-> 1, d |-> 2], [n |-> 4, d |-> 5],
                     [n |-> 1, d |-> 1]}

\* this.maxParticles.  The source sets 500 (part_001:167); the model scales
\* the capacity down so that one burst and one update exceed it.
maxParticles == 25

\* Number of calls of emit, burst and update in one behaviour
MaxParticleCalls == 3

\* Results of Math.random() for the maxLife of the particles of one call:
\* 0 for each, or 0 and 0.5 in turn
RandomInputs == {<<[n |-> 0, d |-> 1]>>, <<[n |-> 0, d |-> 1], [n |-> 1, d |-> 2]>>}

\* Arguments of burst: the intensity
IntensityInputs == {1, 2}

\* Arguments of update: deltaTime in seconds and audioData.average
ParticleUpdateInputs ==
  {<<[n |-> 0, d |-> 1], [n |-> 0, d |-> 1]>>, <<[n |-> 1, d |-> 2], [n |-> 0, d |-> 1]>>,
   <<[n |-> 1, d |-> 1], [n |-> 1, d |-> 1]>>}

\* Number of requestAnimationFrame calls in one behaviour
MaxFrameRequests == 4

\* Number of calls the UIManager makes on its audioManager in one behaviour
MaxAudioCalls == 4

\* event.target.files of a file upload: no file, an MP3 file, a WAV file, a
\* text file, a file of type "audiobook/x", of type "audio" and of no type
FileInputs ==
  {<<>>,
   <<[name |-> "a.mp3", type |-> <<"audio", "mpeg">>]>>,
   <<[name |-> "b.wav", type |-> <<"audio", "wav">>]>>,
   <<[name |-> "c.txt", type |-> <<"text", "plain">>]>>,
   <<[name |-> "d", type |-> <<"audiobook", "x">>]>>,
   <<[name |-> "e", type |-> <<"audio">>]>>,
   <<[name |-> "f", type |-> <<>>]>>}

\* Arguments of setBeatThreshold, in tenths: -1, 0.6 and 5.
ThresholdInputs == {-10, 6, 50}

\* Arguments of setBeatSensitivity, in tenths: 0, 1.2 and 10.
SensitivityInputs == {0, 12, 100}

(***************************************************************************)
(* State of an AudioAnalyzer, and the history variables of the model.      *)
(***************************************************************************)
VARIABLES
  audioContext,        \* this.audioContext: the record of its sampleRate
  analyser,            \* this.analyser: the record of its frequencyBinCount
  dataArrayFrequency,  \* this.dataArrayFrequency: bytes of the current frame
  dataArrayTime,       \* this.dataArrayTime: bytes of the current waveform
  beatThreshold,       \* this.beatThreshold, in tenths
  beatSensitivity,     \* this.beatSensitivity, in tenths
  prevEnergy,          \* this.prevEnergy
  isBeat,              \* this.isBeat
  beatEnergy,          \* this.beatEnergy, in units of 1/(10*255*N)
  frequencyHistory,    \* this.frequencyHistory
  energyHistory,       \* this.energyHistory
  peakHistory,         \* this.peakHistory
  frequencyBands,      \* this.frequencyBands[band].energy, for each band
  stats,               \* this.stats
  frames,              \* history variable: the spectra of all update() calls so far
  clearedAt,           \* history variable: Len(frames) at the last dispose(), 0 if none
  lastOp,              \* history variable: the operation that ran last
  lastArg,             \* history variable: the argument of the last call
  returned,            \* history variable: what the last call returned or threw
  held,                \* the object the caller last obtained from a getter and kept
  lastSmoothed,        \* this.lastSmoothed, a property no method assigns
  moodEngine,          \* the MoodEngine object
  visualizer,          \* the AdvancedVisualizer object
  particleSystem,      \* the ParticleSystem object
  app,                 \* the AudioReactiveSpace object
  ui,                  \* the UIManager object
  environment          \* what the objects act on: the clock, the events delivered
                       \* to listeners, the browser's animation frame requests

\* The objects of the other classes of the application and their environment
collaborators == <<moodEngine, visualizer, particleSystem, app, ui, environment>>

\* What no method of AudioAnalyzer assigns
untouched == <<lastSmoothed, collaborators>>

vars == <<audioContext, analyser, dataArrayFrequency, dataArrayTime, beatThreshold,
          beatSensitivity, prevEnergy, isBeat, beatEnergy, frequencyHistory,
          energyHistory, peakHistory, frequencyBands, stats, frames, clearedAt,
          lastOp, lastArg, returned, held, lastSmoothed, collaborators>>

\* The fields of the AudioAnalyzer object
fields == <<audioContext, analyser, dataArrayFrequency, dataArrayTime, beatThreshold,
            beatSensitivity, prevEnergy, isBeat, beatEnergy, frequencyHistory,
            energyHistory, peakHistory, frequencyBands, stats>>

(***************************************************************************)
(* Arithmetic helpers.                                                     *)
(***************************************************************************)
Min(a, b) == IF a < b THEN a ELSE b
Max(a, b) == IF a > b THEN a ELSE b

RECURSIVE SumSeq(_)
\* Array.prototype.reduce((a, b) => a + b, 0)
SumSeq(s) == IF s = <<>> THEN 0 ELSE s[1] + SumSeq(Tail(s))

\* x > q for an integer x and a fraction q = [n, d] with d > 0
GreaterThanFraction(x, q) == x * q.d > q.n

\* Math.ceil(a / b) for a >= 0 and b > 0
CeilDiv(a, b) == (a + b - 1) \div b

RECURSIVE Gcd(_, _)
\* Greatest common divisor of a >= 0 and b >= 0
Gcd(a, b) == IF b = 0 THEN a ELSE Gcd(b, a % b)

\* The quotient n / d of n >= 0 and d > 0, in lowest terms (x and y are the
\* values of n and d, and g their greatest common divisor, each computed once)
Fraction(n, d) ==
  CHOOSE q \in {[n |-> x \div g, d |-> y \div g] :
                 <<x, y, g>> \in {<<n, d, Gcd(n, d)>>}} : TRUE

\* The fraction 0
Zero == [n |-> 0, d |-> 1]

\* What a call hands back: the value undefined, a number (a fraction), the
\* number NaN, or a thrown error
Undefined == [kind |-> "undefined"]
Number(q) == [kind |-> "number", value |-> q]
NaN == [kind |-> "NaN"]
Thrown == [kind |-> "error"]

\* An object value of class "Object" or "Array": the reference ref names
\* the storage it lives in ("stats" for the object this.stats, "fresh" for
\* storage of its own) and value is what the storage holds.
Object(class, ref, value) ==
  [kind |-> "object", class |-> class, ref |-> ref, value |-> value]

\* What an object the caller holds shows once update() has assigned the
\* properties of this.stats
Refreshed(object, st) ==
  IF object.kind = "object" /\ object.ref = "stats" THEN [object EXCEPT !.value = st]
  ELSE object

\* The object after the caller's assignment to it: totalEnergy = -1 on a
\* stats object, [0] = -1 on an array
Written(object) ==
  IF object.class = "Object"
    THEN [object EXCEPT !.value = [object.value EXCEPT !.totalEnergy = -1]]
    ELSE [object EXCEPT !.value = [object.value EXCEPT ![1] = [n |-> -1, d |-> 1]]]

(***************************************************************************)
(* The methods of AudioAnalyzer, as functions of the fields they read.     *)
(***************************************************************************)
\* The band descriptors of the constructor: name, min and max in Hz
Bands ==
  << [name |-> "subBass", min |-> 20, max |-> 60],
     [name |-> "bass", min |-> 60, max |-> 250],
     [name |-> "lowMid", min |-> 250, max |-> 500],
     [name |-> "mid", min |-> 500, max |-> 2000],
     [name |-> "highMid", min |-> 2000, max |-> 4000],
     [name |-> "treble", min |-> 4000, max |-> 6000],
     [name |-> "brilliance", min |-> 6000, max |-> 20000] >>

\* Object.keys(this.frequencyBands)
BandNames == {Bands[b].name : b \in 1..Len(Bands)}

\* this.audioContext.sampleRate
sampleRate == audioContext.sampleRate

\* nyquist / this.analyser.frequencyBinCount
binWidth == (sampleRate \div 2) \div analyser.frequencyBinCount

\* analyser.getByteFrequencyData(array), analyser.getByteTimeDomainData(array):
\* the node writes its data into the array it is handed; data beyond the end
\* of the array is dropped and array elements beyond the data are left alone.
CopyInto(array, data) ==
  [i \in 1..Len(array) |-> IF i <= Len(data) THEN data[i] ELSE array[i]]

\* calculateFrequencyBands with a band that includes its upper limit
calculateFrequencyBands_InclusiveMax(data) ==
  [name \in BandNames |->
     LET band == CHOOSE b \in 1..Len(Bands) : Bands[b].name = name
         inBand(i) == /\ (i - 1) * binWidth >= Bands[band].min
                      /\ (i - 1) * binWidth <= Bands[band].max
         binCount == CeilDiv(Bands[band].max - Bands[band].min, binWidth)
     IN Fraction(SumSeq([i \in 1..Len(data) |-> IF inBand(i) THEN data[i] ELSE 0]),
                 Max(binCount, 1))]

\* calculateFrequencyBands without the reset of the band energies: the
\* magnitudes are added to the energy the band had
calculateFrequencyBands_NoReset(data) ==
  [name \in BandNames |->
     LET band == CHOOSE b \in 1..Len(Bands) : Bands[b].name = name
         inBand(i) == /\ (i - 1) * binWidth >= Bands[band].min
                      /\ (i - 1) * binWidth < Bands[band].max
         binCount == CeilDiv(Bands[band].max - Bands[band].min, binWidth)
         old == frequencyBands[name]
     IN Fraction(old.n + old.d * SumSeq([i \in 1..Len(data) |->
                                          IF inBand(i) THEN data[i] ELSE 0]),
                 old.d * Max(binCount, 1))]

\* calculateFrequencyBands: the new energy of each band, the magnitudes of
\* the bins with min <= i * binWidth < max, summed in units of 1/255, over
\* Math.max(binCount, 1)
calculateFrequencyBands(data) ==
  [name \in BandNames |->
     LET band == CHOOSE b \in 1..Len(Bands) : Bands[b].name = name
         inBand(i) == /\ (i - 1) * binWidth >= Bands[band].min
                      /\ (i - 1) * binWidth < Bands[band].max
         binCount == CeilDiv(Bands[band].max - Bands[band].min, binWidth)
     IN Fraction(SumSeq([i \in 1..Len(data) |-> IF inBand(i) THEN data[i] ELSE 0]),
                 Max(binCount, 1))]

\* Array.from(data).map(v => v / 255)
NormalizedFrequency(data) == [i \in 1..Len(data) |-> Fraction(data[i], 255)]

\* The loop of lines 161-166: the sum of the squared differences
\* data[i] / 255 - prevData[i], in units of 1/255^2.  prevData[i] is a
\* fraction n / d whose d divides 255, so 255 * prevData[i] is a whole number.
FluxSum(data, prevData) ==
  LET diff(i) == data[i] - (255 \div prevData[i].d) * prevData[i].n
  IN SumSeq([i \in 1..Len(data) |-> diff(i) * diff(i)])

RECURSIVE PeakBin_LastWins(_, _, _, _)
\* The peak loop taking every magnitude that is not smaller
PeakBin_LastWins(data, i, maxMagnitude, peak) ==
  IF i > Len(data) THEN peak
  ELSE IF data[i] >= maxMagnitude THEN PeakBin_LastWins(data, i + 1, data[i], i - 1)
       ELSE PeakBin_LastWins(data, i + 1, maxMagnitude, peak)

RECURSIVE PeakBin(_, _, _, _)
\* The loop of lines 130-141: the bin of the first strictly larger magnitude.
PeakBin(data, i, maxMagnitude, peak) ==
  IF i > Len(data) THEN peak
  ELSE IF data[i] > maxMagnitude THEN PeakBin(data, i + 1, data[i], i - 1)
       ELSE PeakBin(data, i + 1, maxMagnitude, peak)

\* Lines 143-145: weightedSum / totalMagnitude, 0 for a silent frame.  The
\* factor 1/255 of both sums cancels.
SpectralCentroid(data) ==
  LET weightedSum == SumSeq([i \in 1..Len(data) |-> data[i] * (i - 1) * binWidth])
      totalMagnitude == SumSeq(data)
  IN IF totalMagnitude > 0 THEN Fraction(weightedSum, totalMagnitude) ELSE Zero

\* Lines 151-157: spreadSum / Math.max(totalMagnitude, 1), the fraction under
\* the square root, in units of binWidth^2.  With the centroid c (in Hz) at
\* b.n / b.d bin widths, spreadSum is the sum of
\* data[i] * (i * b.d - b.n)^2 over 255 * b.d^2, and
\* Math.max(totalMagnitude, 1) is Max(SumSeq(data), 255) over 255.
SpectralSpread(data, c) ==
  LET b == Fraction(c.n, c.d * binWidth)
      dev(i) == (i - 1) * b.d - b.n
  IN Fraction(SumSeq([i \in 1..Len(data) |-> data[i] * dev(i) * dev(i)]),
              b.d * b.d * Max(SumSeq(data), 255))

\* calculateSpectralAnalysis comparing against the oldest stored frame
calculateSpectralAnalysis_OldestFrame(data, fh, st) ==
  LET centroid == SpectralCentroid(data)
  IN [st EXCEPT !.spectralCentroid = centroid,
                !.peakFrequency = PeakBin(data, 1, 0, 0) * binWidth,
                !.totalEnergy = SumSeq(data),
                !.spectralSpread = SpectralSpread(data, centroid),
                !.spectralFlux = IF Len(fh) > 0
                                   THEN FluxSum(data, fh[1])
                                   ELSE st.spectralFlux]

\* calculateSpectralAnalysis: the new this.stats.  The flux is assigned only
\* when the history holds a frame; otherwise it keeps its old value.
calculateSpectralAnalysis(data, fh, st) ==
  LET centroid == SpectralCentroid(data)
  IN [st EXCEPT !.spectralCentroid = centroid,
                !.peakFrequency = PeakBin(data, 1, 0, 0) * binWidth,
                !.totalEnergy = SumSeq(data),
                !.spectralSpread = SpectralSpread(data, centroid),
                !.spectralFlux = IF Len(fh) > 0
                                   THEN FluxSum(data, fh[Len(fh)])
                                   ELSE st.spectralFlux]

\* The count of sign changes with a sample at byte 128 counting as negative
ZeroCrossings_ZeroIsNegative(wave) ==
  Cardinality({i \in 2..Len(wave) :
                 \/ (wave[i] - 128 > 0 /\ wave[i - 1] - 128 <= 0)
                 \/ (wave[i] - 128 <= 0 /\ wave[i - 1] - 128 > 0)})

\* Lines 190-195: the number of sign changes between neighbouring samples,
\* a sample counting as negative when its byte is below 128
ZeroCrossings(wave) ==
  Cardinality({i \in 2..Len(wave) :
                 \/ (wave[i] - 128 >= 0 /\ wave[i - 1] - 128 < 0)
                 \/ (wave[i] - 128 < 0 /\ wave[i - 1] - 128 >= 0)})

\* Lines 175-198: varianceSum / length.  With x = byte - 128, M samples and
\* S the sum of the x, a normalized sample is x / 128, the mean S / (128 * M)
\* and a squared deviation (M * x - S)^2 / (128 * M)^2.
Variance(wave) ==
  LET M == Len(wave)
      S == SumSeq([i \in 1..M |-> wave[i] - 128])
      dev(i) == M * (wave[i] - 128) - S
  IN Fraction(SumSeq([i \in 1..M |-> dev(i) * dev(i)]), 128 * 128 * M * M * M)

RECURSIVE PositiveProbabilities(_, _, _)
\* Lines 209-217: the probabilities magnitude / totalEnergy that are > 0, in
\* bin order from bin i on
PositiveProbabilities(data, i, total) ==
  IF i > Len(data) THEN <<>>
  ELSE IF data[i] > 0
         THEN <<Fraction(data[i], total)>> \o PositiveProbabilities(data, i + 1, total)
         ELSE PositiveProbabilities(data, i + 1, total)

\* The terms of an entropy over the magnitudes themselves, not divided by
\* their total
Entropy_Unnormalized(data) ==
  IF SumSeq(data) > 0 THEN PositiveProbabilities(data, 1, 255) ELSE <<>>

\* Lines 201-218: the terms of the entropy, none for a silent frame
Entropy(data) ==
  IF SumSeq(data) > 0 THEN PositiveProbabilities(data, 1, SumSeq(data)) ELSE <<>>

\* calculateTimeAnalysis: the new this.stats
calculateTimeAnalysis(wave, data, st) ==
  [st EXCEPT !.variance = Variance(wave),
             !.zeroCrossingRate = Fraction(ZeroCrossings(wave), Len(wave)),
             !.entropy = Entropy(data)]

\* getAverageEnergy, as the fraction sum / length
getAverageEnergy(eh) ==
  IF Len(eh) = 0 THEN Zero
  ELSE [n |-> SumSeq(eh), d |-> Len(eh)]

\* detectBeat whose baseline includes the current frame
detectBeat_OwnBaseline(currentEnergy, prev, threshold, sensitivity, eh) ==
  LET avg == getAverageEnergy(Append(eh, currentEnergy))
      energyThreshold == [n |-> threshold * avg.n, d |-> 10 * avg.d]
      energyDifference == currentEnergy - prev
      beat == GreaterThanFraction(currentEnergy, energyThreshold) /\ energyDifference > 0
  IN [isBeat |-> beat,
      beatEnergy |-> IF beat THEN currentEnergy * sensitivity ELSE currentEnergy * 10,
      prevEnergy |-> currentEnergy]

\* detectBeat that remembers the energy only when it flags a beat
detectBeat_PrevOnBeat(currentEnergy, prev, threshold, sensitivity, eh) ==
  LET avg == getAverageEnergy(eh)
      energyThreshold == [n |-> threshold * avg.n, d |-> 10 * avg.d]
      energyDifference == currentEnergy - prev
      beat == GreaterThanFraction(currentEnergy, energyThreshold) /\ energyDifference > 0
  IN [isBeat |-> beat,
      beatEnergy |-> IF beat THEN currentEnergy * sensitivity ELSE currentEnergy * 10,
      prevEnergy |-> IF beat THEN currentEnergy ELSE prev]

\* detectBeat that applies the sensitivity whether or not a beat is flagged
detectBeat_AlwaysAmplify(currentEnergy, prev, threshold, sensitivity, eh) ==
  LET avg == getAverageEnergy(eh)
      energyThreshold == [n |-> threshold * avg.n, d |-> 10 * avg.d]
      energyDifference == currentEnergy - prev
      beat == GreaterThanFraction(currentEnergy, energyThreshold) /\ energyDifference > 0
  IN [isBeat |-> beat,
      beatEnergy |-> currentEnergy * sensitivity,
      prevEnergy |-> currentEnergy]

\* detectBeat that flags no beat while the history is empty
detectBeat_NeedsHistory(currentEnergy, prev, threshold, sensitivity, eh) ==
  LET avg == getAverageEnergy(eh)
      energyThreshold == [n |-> threshold * avg.n, d |-> 10 * avg.d]
      energyDifference == currentEnergy - prev
      beat == /\ Len(eh) > 0
              /\ GreaterThanFraction(currentEnergy, energyThreshold)
              /\ energyDifference > 0
  IN [isBeat |-> beat,
      beatEnergy |-> IF beat THEN currentEnergy * sensitivity ELSE currentEnergy * 10,
      prevEnergy |-> currentEnergy]

\* detectBeat that accepts an energy equal to the threshold and to prev
detectBeat_NonStrict(currentEnergy, prev, threshold, sensitivity, eh) ==
  LET avg == getAverageEnergy(eh)
      energyThreshold == [n |-> threshold * avg.n, d |-> 10 * avg.d]
      energyDifference == currentEnergy - prev
      beat == /\ currentEnergy * energyThreshold.d >= energyThreshold.n
              /\ energyDifference >= 0
  IN [isBeat |-> beat,
      beatEnergy |-> IF beat THEN currentEnergy * sensitivity ELSE currentEnergy * 10,
      prevEnergy |-> currentEnergy]

\* detectBeat: the new isBeat, beatEnergy and prevEnergy
detectBeat(currentEnergy, prev, threshold, sensitivity, eh) ==
  LET avg == getAverageEnergy(eh)
      energyThreshold == [n |-> threshold * avg.n, d |-> 10 * avg.d]
      energyDifference == currentEnergy - prev
      beat == GreaterThanFraction(currentEnergy, energyThreshold) /\ energyDifference > 0
  IN [isBeat |-> beat,
      beatEnergy |-> IF beat THEN currentEnergy * sensitivity ELSE currentEnergy * 10,
      prevEnergy |-> currentEnergy]

\* updateHistory that never evicts
updateHistory_NoEvict(fh, eh, data, totalEnergy) ==
  [frequencyHistory |-> Append(fh, NormalizedFrequency(data)),
   energyHistory |-> Append(eh, totalEnergy)]

\* updateHistory that evicts the newest entry (pop) instead of the oldest (shift)
updateHistory_EvictNewest(fh, eh, data, totalEnergy) ==
  LET fh1 == Append(fh, NormalizedFrequency(data))
      eh1 == Append(eh, totalEnergy)
  IN IF Len(fh1) > maxHistoryLength
       THEN [frequencyHistory |-> SubSeq(fh1, 1, Len(fh1) - 1),
             energyHistory |-> SubSeq(eh1, 1, Len(eh1) - 1)]
       ELSE [frequencyHistory |-> fh1, energyHistory |-> eh1]

\* updateHistory: the new frequencyHistory and energyHistory
updateHistory(fh, eh, data, totalEnergy) ==
  LET fh1 == Append(fh, NormalizedFrequency(data))
      eh1 == Append(eh, totalEnergy)
  IN IF Len(fh1) > maxHistoryLength
       THEN [frequencyHistory |-> Tail(fh1), energyHistory |-> Tail(eh1)]
       ELSE [frequencyHistory |-> fh1, energyHistory |-> eh1]

\* a threshold clamp without the upper bound
ClampThreshold_NoUpper(threshold) == Max(0, threshold)

\* Math.max(0, Math.min(1, threshold)), in tenths
ClampThreshold(threshold) == Max(0, Min(10, threshold))

\* Math.max(0.5, Math.min(2, sensitivity)), in tenths
ClampSensitivity(sensitivity) == Max(5, Min(20, sensitivity))

\* this.frequencyBands[bandName]: the band of that name, an object or
\* function inherited from Object.prototype, or undefined
BandLookup(bandName) ==
  IF bandName \in BandNames THEN [kind |-> "band", energy |-> frequencyBands[bandName]]
  ELSE IF bandName \in ObjectPrototypeNames THEN [kind |-> "inherited"]
  ELSE Undefined

\* getBandEnergy without the optional chaining
getBandEnergy_NoOptionalChaining(bandName) ==
  LET band == BandLookup(bandName)
      energy == IF band.kind = "band" THEN Number(band.energy) ELSE Undefined
  IN IF band.kind = "undefined" THEN Thrown
     ELSE IF energy.kind = "number" /\ energy.value # Zero THEN energy
     ELSE Number(Zero)

\* getBandEnergy(bandName): this.frequencyBands[bandName]?.energy || 0.  The
\* energy is undefined where the lookup finds no band, and || 0 replaces
\* undefined (and 0) by 0.
getBandEnergy(bandName) ==
  LET band == BandLookup(bandName)
      energy == IF band.kind = "band" THEN Number(band.energy) ELSE Undefined
  IN IF energy.kind = "number" /\ energy.value # Zero THEN energy
     ELSE Number(Zero)

\* getFrequencyRangeEnergy(minFreq, maxFreq) for minFreq >= 0 and
\* maxFreq >= 0: energy / (maxBin - minBin), the energy in units of 1/255.
\* The loop adds nothing when maxBin <= minBin; 0 / 0 is NaN and 0 over a
\* negative number is -0, held as the number 0.
getFrequencyRangeEnergy(minFreq, maxFreq) ==
  LET minBin == minFreq \div binWidth
      maxBin == CeilDiv(maxFreq, binWidth)
      last == Min(maxBin, Len(dataArrayFrequency)) - 1
      energy == SumSeq([k \in 1..(last - minBin + 1) |-> dataArrayFrequency[minBin + k]])
  IN IF maxBin - minBin = 0 THEN NaN
     ELSE IF maxBin - minBin < 0 THEN Number(Zero)
     ELSE Number(Fraction(energy, maxBin - minBin))

\* getSmoothedValue blending with a previous value of 0 from the first call
getSmoothedValue_BlendFromZero(value, smoothingFactor) ==
  Number(Fraction(value * (10 - smoothingFactor), 100))

\* getSmoothedValue(value, smoothingFactor), both arguments in tenths: the
\* value itself while this.lastSmoothed is undefined, otherwise
\* value * (1 - smoothingFactor) + this.lastSmoothed * smoothingFactor
getSmoothedValue(value, smoothingFactor) ==
  IF lastSmoothed.kind = "undefined" THEN Number(Fraction(value, 10))
  ELSE LET last == lastSmoothed.value
       IN Number(Fraction(value * (10 - smoothingFactor) * last.d
                            + 10 * last.n * smoothingFactor,
                          100 * last.d))

\* isBeatDetected()
isBeatDetected == isBeat

\* getBeatEnergy()
getBeatEnergy == beatEnergy

\* getStats() returning this.stats itself
getStats_SameObject == Object("Object", "stats", stats)

\* getStats(): { ...this.stats }, a new object with the properties of
\* this.stats, all of them numbers
getStats == Object("Object", "fresh", stats)

\* getFrequencyData(): Array.from(this.dataArrayFrequency).map(v => v / 255),
\* a new array
getFrequencyData == Object("Array", "fresh", NormalizedFrequency(dataArrayFrequency))

(***************************************************************************)
(* Initial state: the constructor.                                         *)
(***************************************************************************)
(***************************************************************************)
(* MoodEngine (src/unnamed/part_000).  Times are in seconds; the parameters *)
(* of a mood are in tenths.                                                *)
(***************************************************************************)
\* this.moods: of the parameters of a mood the model keeps the brightness;
\* interpolateMoods treats the other numeric parameters by the same formula.
moods ==
  [calm |-> [brightness |-> 6], energetic |-> [brightness |-> 10],
   heartbreak |-> [brightness |-> 5]]

\* Object.keys(this.moods), in insertion order
moodArray == <<"calm", "energetic", "heartbreak">>

\* this.transitionRules
transitionRules ==
  [calm |-> {"energetic", "heartbreak"}, energetic |-> {"calm", "heartbreak"},
   heartbreak |-> {"calm", "energetic"}]

\* this.moodTransitionDuration: 2000 ms
moodTransitionDuration == 2

\* The MoodEngine object after its constructor; transitionStartTime 0 stands
\* for null (both are falsy, and Date.now() is never 0)
NewMoodEngine ==
  [currentMood |-> "calm", isTransitioning |-> FALSE, transitionStartTime |-> 0]

\* A boolean return value
Boolean(b) == [kind |-> "boolean", value |-> b]

\* this.moods[name] is truthy: name is a mood or a name every object inherits
HasMood(name) == name \in DOMAIN moods \/ name \in ObjectPrototypeNames

\* getTransitionProgress() at time now: elapsed / duration, at most 1
getTransitionProgress(engine, now) ==
  IF ~engine.isTransitioning \/ engine.transitionStartTime = 0 THEN Zero
  ELSE Fraction(Min(now - engine.transitionStartTime, moodTransitionDuration),
                moodTransitionDuration)

\* easeInOutCubic(t) for a fraction t in [0, 1]:
\* t < 0.5 ? 4 * t^3 : 1 - (-2 * t + 2)^3 / 2
easeInOutCubic(t) ==
  CHOOSE eased \in
    {IF 2 * q.n < q.d
       THEN Fraction(4 * q.n * q.n * q.n, q.d * q.d * q.d)
       ELSE LET u == 2 * q.d - 2 * q.n
            IN Fraction(2 * q.d * q.d * q.d - u * u * u, 2 * q.d * q.d * q.d) :
     q \in {t}} : TRUE

\* getMoodData(): the data of the current mood
getMoodData(engine, now) ==
  [mood |-> engine.currentMood,
   brightness |-> Fraction(moods[engine.currentMood].brightness, 10),
   isTransitioning |-> engine.isTransitioning,
   transitionProgress |-> getTransitionProgress(engine, now)]

\* interpolateMoods(from, to, progress), from and to being mood names
interpolateMoods(engine, from, to, progress) ==
  CHOOSE data \in
    {[mood |-> engine.currentMood,
      brightness |-> Fraction(moods[from].brightness * ease.d
                                + (moods[to].brightness - moods[from].brightness) * ease.n,
                              10 * ease.d),
      isTransitioning |-> TRUE,
      transitionProgress |-> ease] :
     ease \in {easeInOutCubic(progress)}} : TRUE

\* moodArray.find(m => m !== this.currentMood)
previousMoodName(engine) ==
  moodArray[CHOOSE i \in 1..Len(moodArray) :
              /\ moodArray[i] # engine.currentMood
              /\ \A j \in 1..(i - 1) : moodArray[j] = engine.currentMood]

\* changeMood that does not look at isTransitioning
changeMood_IgnoresTransition(engine, newMood, now) ==
  IF \/ ~HasMood(newMood)
     \/ newMood = engine.currentMood
     \/ newMood \notin transitionRules[engine.currentMood]
    THEN [engine |-> engine, events |-> <<>>, result |-> Boolean(FALSE)]
    ELSE [engine |-> [currentMood |-> newMood, isTransitioning |-> TRUE,
                      transitionStartTime |-> now],
          events |-> <<[type |-> "moodChangeStarted", from |-> engine.currentMood,
                        to |-> newMood]>>,
          result |-> Boolean(TRUE)]

\* changeMood(newMood) at time now: the engine afterwards, the events it
\* hands to notifyListeners and the value it returns
changeMood(engine, newMood, now) ==
  IF \/ ~HasMood(newMood)
     \/ newMood = engine.currentMood
     \/ engine.isTransitioning
     \/ newMood \notin transitionRules[engine.currentMood]
    THEN [engine |-> engine, events |-> <<>>, result |-> Boolean(FALSE)]
    ELSE [engine |-> [currentMood |-> newMood, isTransitioning |-> TRUE,
                      transitionStartTime |-> now],
          events |-> <<[type |-> "moodChangeStarted", from |-> engine.currentMood,
                        to |-> newMood]>>,
          result |-> Boolean(TRUE)]

\* getInterpolatedMoodData that reports the completion and leaves
\* isTransitioning set
getInterpolatedMoodData_KeepsFlag(engine, now) ==
  IF ~engine.isTransitioning
    THEN [engine |-> engine, events |-> <<>>, result |-> getMoodData(engine, now)]
  ELSE IF getTransitionProgress(engine, now) = [n |-> 1, d |-> 1]
    THEN [engine |-> engine,
          events |-> <<[type |-> "moodChangeComplete", from |-> engine.currentMood,
                        to |-> engine.currentMood]>>,
          result |-> getMoodData(engine, now)]
  ELSE [engine |-> engine, events |-> <<>>,
        result |-> interpolateMoods(engine, previousMoodName(engine), engine.currentMood,
                                    getTransitionProgress(engine, now))]

\* getInterpolatedMoodData() at time now: the engine afterwards, the events
\* it hands to notifyListeners and the data it returns
getInterpolatedMoodData(engine, now) ==
  IF ~engine.isTransitioning
    THEN [engine |-> engine, events |-> <<>>, result |-> getMoodData(engine, now)]
  ELSE IF getTransitionProgress(engine, now) = [n |-> 1, d |-> 1]
    THEN LET done == [engine EXCEPT !.isTransitioning = FALSE]
         IN [engine |-> done,
             events |-> <<[type |-> "moodChangeComplete", from |-> done.currentMood,
                           to |-> done.currentMood]>>,
             result |-> getMoodData(done, now)]
  ELSE [engine |-> engine, events |-> <<>>,
        result |-> interpolateMoods(engine, previousMoodName(engine), engine.currentMood,
                                    getTransitionProgress(engine, now))]

\* reset(): changeMood('calm') unless the mood is calm
reset(engine, now) ==
  IF engine.currentMood # "calm" THEN changeMood(engine, "calm", now)
  ELSE [engine |-> engine, events |-> <<>>, result |-> Undefined]

(***************************************************************************)
(* The AdvancedVisualizer class of src/unnamed/part_001.  A typed array is *)
(* held as its runs: a sequence of records [count, value], count          *)
(* consecutive elements of the same value.  A JavaScript number is a      *)
(* Number of a signed fraction, or NaN.                                   *)
(***************************************************************************)
\* A typed array of count elements, each of the value given
Filled(count, value) == <<[count |-> count, value |-> value]>>

RECURSIVE Length(_)
\* array.length
Length(array) == IF array = <<>> THEN 0 ELSE array[1].count + Length(Tail(array))

RECURSIVE SliceSum(_, _, _)
\* array.slice(start, end).reduce((a, b) => a + b, 0)
SliceSum(array, start, end) ==
  IF array = <<>> THEN 0
  ELSE array[1].value * Max(0, Min(end, array[1].count) - Max(start, 0))
         + SliceSum(Tail(array), start - array[1].count, end - array[1].count)

\* array.slice(start, end).length
SliceLength(array, start, end) ==
  Max(0, Min(end, Length(array)) - Min(start, Length(array)))

\* a + b, a - b and a * b on JavaScript numbers
Plus(a, b) ==
  IF a.kind = "NaN" \/ b.kind = "NaN" THEN NaN
  ELSE Number(Fraction(a.value.n * b.value.d + b.value.n * a.value.d,
                       a.value.d * b.value.d))
Minus(a, b) ==
  IF a.kind = "NaN" \/ b.kind = "NaN" THEN NaN
  ELSE Number(Fraction(a.value.n * b.value.d - b.value.n * a.value.d,
                       a.value.d * b.value.d))
Times(a, b) ==
  IF a.kind = "NaN" \/ b.kind = "NaN" THEN NaN
  ELSE Number(Fraction(a.value.n * b.value.n, a.value.d * b.value.d))

\* The number 1
One == Number([n |-> 1, d |-> 1])

\* The AdvancedVisualizer object after its constructor
NewVisualizer ==
  [audioData |-> [frequency |-> Filled(256, 0), waveform |-> Filled(2048, 0),
                  bass |-> Number(Zero), mid |-> Number(Zero),
                  treble |-> Number(Zero), average |-> Number(Zero), peak |-> 0],
   config |-> [smoothingFactor |-> Number([n |-> 4, d |-> 5])],
   smoothedAudio |-> [bass |-> Number(Zero), mid |-> Number(Zero),
                      treble |-> Number(Zero), average |-> Number(Zero)]]

\* calculateBand(start, end) on the frequency data: the mean of the slice
\* over 255, 0 / 0 being NaN
calculateBand(frequency, start, end) ==
  IF SliceLength(frequency, start, end) = 0 THEN NaN
  ELSE Number(Fraction(SliceSum(frequency, start, end),
                       SliceLength(frequency, start, end) * 255))

\* Math.max(...array); -1 stands for -Infinity, the maximum of no element
MathMax(array) ==
  IF Length(array) = 0 THEN -1
  ELSE CHOOSE m \in {array[i].value : i \in 1..Len(array)} :
         \A i \in 1..Len(array) : array[i].value <= m

\* lerp(current, target, factor)
lerp(current, target, factor) == Plus(current, Times(Minus(target, target), factor))

\* updateAudioData(frequencyData, waveformData): the visualizer afterwards
updateAudioData(v, frequencyData, waveformData) ==
  LET bass == calculateBand(frequencyData, 0, 85)
      mid == calculateBand(frequencyData, 85, 170)
      treble == calculateBand(frequencyData, 170, 256)
      average == Times(Plus(Plus(bass, mid), treble), Number([n |-> 1, d |-> 3]))
      factor == Minus(One, v.config.smoothingFactor)
  IN [v EXCEPT
        !.audioData = [frequency |-> frequencyData, waveform |-> waveformData,
                       bass |-> bass, mid |-> mid, treble |-> treble,
                       average |-> average, peak |-> MathMax(frequencyData)],
        !.smoothedAudio = [bass |-> lerp(v.smoothedAudio.bass, bass, factor),
                           mid |-> lerp(v.smoothedAudio.mid, mid, factor),
                           treble |-> lerp(v.smoothedAudio.treble, treble, factor),
                           average |-> lerp(v.smoothedAudio.average, average, factor)]]

\* setConfig(newConfig), newConfig holding a smoothingFactor
setConfig(v, smoothingFactor) ==
  [v EXCEPT !.config = [v.config EXCEPT !.smoothingFactor = smoothingFactor]]

(***************************************************************************)
(* The ParticleSystem class of src/unnamed/part_001.  A particle is held   *)
(* as its life and maxLife, both fractions; its position, velocity, size,  *)
(* hue and type take no part in its ageing or removal.  The results of     *)
(* Math.random() that give the particles of one call their maxLife are a   *)
(* sequence of fractions in [0, 1), used in turn and repeated.             *)
(***************************************************************************)
\* The ParticleSystem object after its constructor
NewParticleSystem == [particles |-> <<>>]

\* The particle pushed in iteration i of emit: life 1, maxLife 1 + random * 0.5
NewParticle(i, random) ==
  [life |-> [n |-> 1, d |-> 1],
   maxLife |-> LET r == random[(i % Len(random)) + 1]
               IN Fraction(2 * r.d + r.n, 2 * r.d)]

\* emit that pushes every particle asked for
emit_NoCap(ps, count, random) ==
  [ps EXCEPT !.particles = ps.particles \o [i \in 1..Max(0, count) |-> NewParticle(i - 1, random)]]

\* emit(x, y, count, intensity): the loop pushes a particle for i = 0, 1, ...
\* while i < count, and breaks once particles.length >= maxParticles
emit(ps, count, random) ==
  LET room == Max(0, maxParticles - Len(ps.particles))
      pushed == Min(Max(0, count), room)
  IN [ps EXCEPT !.particles = ps.particles \o [i \in 1..pushed |-> NewParticle(i - 1, random)]]

\* burst(x, y, intensity)
burst(ps, intensity, random) == emit(ps, 20 * intensity, random)

\* The particle after p.life -= deltaTime / p.maxLife
Aged(p, deltaTime) ==
  [p EXCEPT !.life = Fraction(p.life.n * deltaTime.d * p.maxLife.n
                                - deltaTime.n * p.maxLife.d * p.life.d,
                              p.life.d * deltaTime.d * p.maxLife.n)]

\* particles.splice(i, 1), i counting from 1
Splice(particles, i) ==
  [j \in 1..(Len(particles) - 1) |-> IF j < i THEN particles[j] ELSE particles[j + 1]]

RECURSIVE AgeFrom(_, _, _)
\* The loop of update from index i down to the first particle: each particle
\* ages, and is spliced out when its life is <= 0
AgeFrom(particles, i, deltaTime) ==
  IF i < 1 THEN particles
  ELSE CHOOSE result \in
         {AgeFrom(IF p.life.n <= 0 THEN Splice(particles, i)
                  ELSE [particles EXCEPT ![i] = p], i - 1, deltaTime) :
          p \in {Aged(particles[i], deltaTime)}} : TRUE

\* update(deltaTime, audioData): the loop, then emit of
\* Math.floor(3 + audioData.average * 20) particles
updateParticles(ps, deltaTime, average, random) ==
  emit([ps EXCEPT !.particles = AgeFrom(ps.particles, Len(ps.particles), deltaTime)],
       (3 * average.d + 20 * average.n) \div average.d, random)

(***************************************************************************)
(* The AudioReactiveSpace class of src/unnamed/part_002.  The browser      *)
(* keeps the animation frame requests: environment.pending is the set of   *)
(* the ids whose callback is still to run, environment.requested the       *)
(* number of requests made so far, the id of a request being its number.   *)
(* A method gives the app and the environment it leaves.                   *)
(***************************************************************************)
\* The AudioReactiveSpace object after its constructor; animationFrameId 0
\* stands for null (no request has the id 0)
NewApp == [isInitialized |-> FALSE, isRunning |-> FALSE, animationFrameId |-> 0]

\* init(): isInitialized is set when the setup succeeds
init(a, env, succeeds) ==
  [app |-> IF succeeds THEN [a EXCEPT !.isInitialized = TRUE] ELSE a,
   environment |-> env, result |-> Boolean(succeeds)]

\* animate(): requests the next frame and keeps its id
animate(a, env) ==
  [app |-> [a EXCEPT !.animationFrameId = env.requested + 1],
   environment |-> [env EXCEPT !.requested = env.requested + 1,
                               !.pending = env.pending \cup {env.requested + 1}],
   result |-> Undefined]

\* togglePause()
togglePause(a, env) ==
  [app |-> [a EXCEPT !.isRunning = ~a.isRunning], environment |-> env,
   result |-> Undefined]

\* start()
start(a, env) ==
  IF a.isInitialized /\ ~a.isRunning
    THEN [animate([a EXCEPT !.isRunning = TRUE], env) EXCEPT !.result = Boolean(TRUE)]
    ELSE [app |-> a, environment |-> env, result |-> Boolean(FALSE)]

\* dispose(): cancelAnimationFrame(this.animationFrameId) when it is set
dispose(a, env) ==
  [app |-> [a EXCEPT !.isRunning = FALSE],
   environment |-> IF a.animationFrameId # 0
                     THEN [env EXCEPT !.pending = env.pending \ {a.animationFrameId}]
                     ELSE env,
   result |-> Undefined]

(***************************************************************************)
(* The UIManager class of src/js/ui.js.  The audioManager it is built on   *)
(* is an object of the caller: environment.audioManager records whether it *)
(* has an audioElement and the methods called on it, in order; its methods *)
(* return normally.  A file is the record of its name and its MIME type, a *)
(* MIME type being the sequence of the parts a "/" separates.              *)
(***************************************************************************)
\* The value null
Null == [kind |-> "null"]

\* The UIManager object after its constructor
NewUIManager == [isPlaying |-> FALSE, currentFile |-> Null]

\* type.startsWith('audio/')
StartsWithAudio(type) == Len(type) >= 2 /\ type[1] = "audio"

\* A call of audioManager.method()
Called(manager, method) == [manager EXCEPT !.calls = Append(manager.calls, method)]

\* handleFileUpload(event), files being event.target.files and created
\* telling whether loadAudio leaves the audioManager with an audioElement:
\* the UIManager and the audioManager afterwards
handleFileUpload(u, manager, files, created) ==
  IF Len(files) = 0 \/ ~StartsWithAudio(files[1].type)
    THEN [ui |-> u, audioManager |-> manager]
    ELSE [ui |-> [u EXCEPT !.currentFile = files[1]],
          audioManager |-> [Called(manager, "loadAudio") EXCEPT !.audioElement = created]]

\* play() without the check for a file or an audioElement
play_Unguarded(u, manager) ==
  [ui |-> [u EXCEPT !.isPlaying = TRUE], audioManager |-> Called(manager, "play")]

\* play()
play(u, manager) ==
  IF u.currentFile = Null /\ ~manager.audioElement
    THEN [ui |-> u, audioManager |-> manager]
    ELSE [ui |-> [u EXCEPT !.isPlaying = TRUE], audioManager |-> Called(manager, "play")]

\* pause()
pause(u, manager) ==
  [ui |-> [u EXCEPT !.isPlaying = FALSE], audioManager |-> Called(manager, "pause")]

\* stop()
stop(u, manager) ==
  [ui |-> [u EXCEPT !.isPlaying = FALSE], audioManager |-> Called(manager, "stop")]

\* this.stats as the constructor builds it
InitialStats ==
  [totalEnergy |-> 0, averageFrequency |-> 0, peakFrequency |-> 0,
   spectralCentroid |-> Zero, spectralSpread |-> Zero, spectralFlux |-> 0,
   zeroCrossingRate |-> Zero, variance |-> Zero, entropy |-> <<>>]

constructor(context) ==
  /\ audioContext = context
  /\ analyser = [frequencyBinCount |-> NumBins]
  /\ dataArrayFrequency = [i \in 1..NumBins |-> 0]
  /\ dataArrayTime = [i \in 1..NumBins |-> 0]
  /\ beatThreshold = 6
  /\ beatSensitivity = 12
  /\ prevEnergy = 0
  /\ isBeat = FALSE
  /\ beatEnergy = 0
  /\ frequencyHistory = <<>>
  /\ energyHistory = <<>>
  /\ peakHistory = <<>>
  /\ frequencyBands = [name \in BandNames |-> Zero]
  /\ stats = InitialStats
  /\ frames = <<>>
  /\ clearedAt = 0
  /\ lastOp = "new"
  /\ lastArg = 0
  /\ returned = Undefined
  /\ held = Undefined
  /\ lastSmoothed = Undefined

\* The objects of the other classes as their constructors build them
Constructed ==
  /\ moodEngine = NewMoodEngine
  /\ visualizer = NewVisualizer
  /\ particleSystem = NewParticleSystem
  /\ app = NewApp
  /\ ui = NewUIManager
  /\ environment = [now |-> 1, notified |-> <<>>, calls |-> 0, requested |-> 0,
                    pending |-> {},
                    audioManager |-> [audioElement |-> FALSE, calls |-> <<>>]]

Init == constructor([sampleRate |-> DefaultSampleRate]) /\ Constructed

(***************************************************************************)
(* Operations.                                                             *)
(***************************************************************************)
\* update(), the analyser node delivering spectrum f and waveform w
update(f, w) ==
  /\ dataArrayFrequency' = CopyInto(dataArrayFrequency, f)
  /\ dataArrayTime' = CopyInto(dataArrayTime, w)
  /\ frequencyBands' = calculateFrequencyBands(dataArrayFrequency')
  /\ stats' = calculateTimeAnalysis(dataArrayTime', dataArrayFrequency',
                 calculateSpectralAnalysis(dataArrayFrequency', frequencyHistory, stats))
  /\ LET b == detectBeat(stats'.totalEnergy, prevEnergy, beatThreshold,
                         beatSensitivity, energyHistory)
     IN /\ isBeat' = b.isBeat
        /\ beatEnergy' = b.beatEnergy
        /\ prevEnergy' = b.prevEnergy
  /\ LET h == updateHistory(frequencyHistory, energyHistory, dataArrayFrequency',
                            stats'.totalEnergy)
     IN /\ frequencyHistory' = h.frequencyHistory
        /\ energyHistory' = h.energyHistory
  /\ frames' = Append(frames, dataArrayFrequency')
  /\ lastOp' = "update"
  /\ lastArg' = 0
  /\ returned' = Undefined
  /\ held' = Refreshed(held, stats')
  /\ UNCHANGED <<untouched,
                 audioContext, analyser, beatThreshold, beatSensitivity, peakHistory,
                 clearedAt>>

\* update() as one of at most MaxUpdates calls
Update(f, w) ==
  /\ Len(frames) < MaxUpdates
  /\ update(f, w)

\* setBeatThreshold(threshold)
SetBeatThreshold(threshold) ==
  /\ beatThreshold' = ClampThreshold(threshold)
  /\ lastOp' = "setBeatThreshold"
  /\ lastArg' = threshold
  /\ returned' = Undefined
  /\ UNCHANGED <<untouched,
                 audioContext, analyser, dataArrayFrequency, dataArrayTime,
                 beatSensitivity, prevEnergy, isBeat, beatEnergy, frequencyHistory,
                 energyHistory, peakHistory, frequencyBands, stats, frames, clearedAt,
                 held>>

\* setBeatSensitivity(sensitivity)
SetBeatSensitivity(sensitivity) ==
  /\ beatSensitivity' = ClampSensitivity(sensitivity)
  /\ lastOp' = "setBeatSensitivity"
  /\ lastArg' = sensitivity
  /\ returned' = Undefined
  /\ UNCHANGED <<untouched,
                 audioContext, analyser, dataArrayFrequency, dataArrayTime,
                 beatThreshold, prevEnergy, isBeat, beatEnergy, frequencyHistory,
                 energyHistory, peakHistory, frequencyBands, stats, frames, clearedAt,
                 held>>

\* dispose()
Dispose ==
  /\ frequencyHistory' = <<>>
  /\ energyHistory' = <<>>
  /\ peakHistory' = <<>>
  /\ clearedAt' = Len(frames)
  /\ lastOp' = "dispose"
  /\ lastArg' = 0
  /\ returned' = Undefined
  /\ UNCHANGED <<untouched,
                 audioContext, analyser, dataArrayFrequency, dataArrayTime,
                 beatThreshold, beatSensitivity, prevEnergy, isBeat, beatEnergy,
                 frequencyBands, stats, frames, held>>

Next ==
  \/ \E f \in Spectra, w \in Waveforms : Update(f, w)
  \/ \E x \in ThresholdInputs : SetBeatThreshold(x)
  \/ \E x \in SensitivityInputs : SetBeatSensitivity(x)
  \/ Dispose

Spec == Init /\ [][Next]_vars

(***************************************************************************)
(* The analyser on audio contexts of several sample rates, fed frames with  *)
(* unequal bins and waveforms around the sign boundary, and queried.       *)
(***************************************************************************)
\* update() as one of at most MaxFrames calls
FrameUpdate(f, w) ==
  /\ Len(frames) < MaxFrames
  /\ update(f, w)

\* getBandEnergy(bandName)
GetBandEnergy(bandName) ==
  /\ returned' = getBandEnergy(bandName)
  /\ lastOp' = "getBandEnergy"
  /\ lastArg' = bandName
  /\ UNCHANGED <<untouched, fields, frames, clearedAt, held>>

\* getFrequencyRangeEnergy(minFreq, maxFreq)
GetFrequencyRangeEnergy(minFreq, maxFreq) ==
  /\ returned' = getFrequencyRangeEnergy(minFreq, maxFreq)
  /\ lastOp' = "getFrequencyRangeEnergy"
  /\ lastArg' = <<minFreq, maxFreq>>
  /\ UNCHANGED <<untouched, fields, frames, clearedAt, held>>

FrameInit == (\E rate \in SampleRates : constructor([sampleRate |-> rate])) /\ Constructed

FrameNext ==
  \/ \E input \in FrameInputs : FrameUpdate(input[1], input[2])
  \/ \E name \in BandNameInputs : GetBandEnergy(name)
  \/ \E range \in RangeInputs : GetFrequencyRangeEnergy(range[1], range[2])

FrameSpec == FrameInit /\ [][FrameNext]_vars

(***************************************************************************)
(* The analyser and a caller that keeps and writes the objects the getters *)
(* hand out.                                                               *)
(***************************************************************************)
\* getStats(), the caller keeping the object
GetStats ==
  /\ returned' = getStats
  /\ held' = getStats
  /\ lastOp' = "getStats"
  /\ lastArg' = 0
  /\ UNCHANGED <<untouched, fields, frames, clearedAt>>

\* getFrequencyData(), the caller keeping the array
GetFrequencyData ==
  /\ returned' = getFrequencyData
  /\ held' = getFrequencyData
  /\ lastOp' = "getFrequencyData"
  /\ lastArg' = 0
  /\ UNCHANGED <<untouched, fields, frames, clearedAt>>

\* The caller assigns to the object it keeps.  The assignment goes to the
\* storage of the object: to this.stats when the object is this.stats.
CallerWrites ==
  /\ held.kind = "object"
  /\ held' = Written(held)
  /\ stats' = IF held.ref = "stats" THEN held'.value ELSE stats
  /\ lastOp' = "callerWrites"
  /\ lastArg' = 0
  /\ returned' = Undefined
  /\ UNCHANGED <<untouched,
                 audioContext, analyser, dataArrayFrequency, dataArrayTime,
                 beatThreshold, beatSensitivity, prevEnergy, isBeat, beatEnergy,
                 frequencyHistory, energyHistory, peakHistory, frequencyBands, frames,
                 clearedAt>>

\* getSmoothedValue(value, smoothingFactor)
GetSmoothedValue(value, smoothingFactor) ==
  /\ returned' = getSmoothedValue(value, smoothingFactor)
  /\ lastOp' = "getSmoothedValue"
  /\ lastArg' = <<value, smoothingFactor>>
  /\ UNCHANGED <<untouched, fields, frames, clearedAt, held>>

AliasNext ==
  \/ \E f \in Spectra, w \in Waveforms : Update(f, w)
  \/ GetStats
  \/ GetFrequencyData
  \/ CallerWrites
  \/ \E input \in SmoothingInputs : GetSmoothedValue(input[1], input[2])

AliasSpec == Init /\ [][AliasNext]_vars

(***************************************************************************)
(* The analyser whose node is given another fftSize after construction:    *)
(* the node then delivers frames of a length other than the buffers'.      *)
(***************************************************************************)
\* The frames a node of n bins delivers: silence, every bin at 255, and the
\* last bin alone at 255, each with the constant waveform
InputsOfLength(n) ==
  { <<f, [i \in 1..n |-> 128]>> :
      f \in { [i \in 1..n |-> 0], [i \in 1..n |-> 255],
              [i \in 1..n |-> IF i = n THEN 255 ELSE 0] } }

\* The values of analyser.frequencyBinCount
BinCounts == {1, NumBins, 2 * NumBins}

\* getAnalyser().fftSize = 2 * n
SetFftSize(n) ==
  /\ analyser' = [frequencyBinCount |-> n]
  /\ lastOp' = "setFftSize"
  /\ lastArg' = n
  /\ returned' = Undefined
  /\ UNCHANGED <<untouched,
                 audioContext, dataArrayFrequency, dataArrayTime, beatThreshold,
                 beatSensitivity, prevEnergy, isBeat, beatEnergy, frequencyHistory,
                 energyHistory, peakHistory, frequencyBands, stats, frames, clearedAt,
                 held>>

\* update(), the node delivering a frame of its frequencyBinCount bins
UpdateFromNode ==
  \E input \in InputsOfLength(analyser.frequencyBinCount) :
    FrameUpdate(input[1], input[2])

MismatchNext ==
  \/ \E n \in BinCounts : SetFftSize(n)
  \/ UpdateFromNode

MismatchSpec == Init /\ [][MismatchNext]_vars


(***************************************************************************)
(* The MoodEngine, its callers and the clock.                              *)
(***************************************************************************)
\* The state after a call of a MoodEngine method with outcome r
MoodEngineCall(r) ==
  /\ moodEngine' = r.engine
  /\ environment' = [environment EXCEPT !.notified = environment.notified \o r.events]
  /\ UNCHANGED <<fields, lastSmoothed, frames, clearedAt, held, visualizer,
                 particleSystem, app, ui>>

\* changeMood(newMood)
ChangeMood(newMood) ==
  /\ \E r \in {changeMood(moodEngine, newMood, environment.now)} :
       MoodEngineCall(r) /\ returned' = r.result
  /\ lastOp' = "changeMood"
  /\ lastArg' = newMood

\* getInterpolatedMoodData()
GetInterpolatedMoodData ==
  /\ \E r \in {getInterpolatedMoodData(moodEngine, environment.now)} :
       MoodEngineCall(r) /\ returned' = r.result
  /\ lastOp' = "getInterpolatedMoodData"
  /\ lastArg' = 0

\* reset() of the MoodEngine
Reset ==
  /\ MoodEngineCall(reset(moodEngine, environment.now))
  /\ returned' = Undefined
  /\ lastOp' = "reset"
  /\ lastArg' = 0

\* A second passes
Tick ==
  /\ environment.now < MaxTime
  /\ environment' = [environment EXCEPT !.now = environment.now + 1]
  /\ UNCHANGED <<fields, lastSmoothed, frames, clearedAt, held, lastOp, lastArg,
                 returned, moodEngine, visualizer, particleSystem, app, ui>>

MoodNext ==
  \/ \E m \in MoodInputs : ChangeMood(m)
  \/ GetInterpolatedMoodData
  \/ Reset
  \/ Tick

MoodSpec == Init /\ [][MoodNext]_vars

\* The clock advances and the engine is polled
MoodFairSpec == MoodSpec /\ WF_vars(Tick) /\ WF_vars(GetInterpolatedMoodData)

(***************************************************************************)
(* Behaviours of an AdvancedVisualizer that is fed frequency data and      *)
(* reconfigured.                                                           *)
(***************************************************************************)
\* updateAudioData(frequencyData, waveformData), the waveform being silence
UpdateAudioData(frequencyData) ==
  /\ visualizer' = updateAudioData(visualizer, frequencyData, Filled(2048, 128))
  /\ lastOp' = "updateAudioData"
  /\ lastArg' = frequencyData
  /\ returned' = Undefined
  /\ UNCHANGED <<fields, lastSmoothed, frames, clearedAt, held, moodEngine,
                 particleSystem, app, ui, environment>>

\* setConfig({smoothingFactor})
SetConfig(smoothingFactor) ==
  /\ visualizer' = setConfig(visualizer, Number(smoothingFactor))
  /\ lastOp' = "setConfig"
  /\ lastArg' = smoothingFactor
  /\ returned' = Undefined
  /\ UNCHANGED <<fields, lastSmoothed, frames, clearedAt, held, moodEngine,
                 particleSystem, app, ui, environment>>

VisualizerNext ==
  \/ \E frequencyData \in FrequencyInputs : UpdateAudioData(frequencyData)
  \/ \E smoothingFactor \in SmoothingFactors : SetConfig(smoothingFactor)

VisualizerSpec == Init /\ [][VisualizerNext]_vars

(***************************************************************************)
(* Behaviours of a ParticleSystem under at most MaxParticleCalls calls.    *)
(***************************************************************************)
\* A call that leaves the particle system as ps
ParticleSystemCall(ps) ==
  /\ environment.calls < MaxParticleCalls
  /\ particleSystem' = ps
  /\ environment' = [environment EXCEPT !.calls = environment.calls + 1]
  /\ returned' = Undefined
  /\ UNCHANGED <<fields, lastSmoothed, frames, clearedAt, held, moodEngine,
                 visualizer, app, ui>>

\* emit(x, y) with the default count 5
Emit(random) ==
  /\ ParticleSystemCall(emit(particleSystem, 5, random))
  /\ lastOp' = "emit"
  /\ lastArg' = <<5, random>>

\* burst(x, y, intensity)
Burst(intensity, random) ==
  /\ ParticleSystemCall(burst(particleSystem, intensity, random))
  /\ lastOp' = "burst"
  /\ lastArg' = <<intensity, random>>

\* update(deltaTime, audioData) of the ParticleSystem
UpdateParticles(deltaTime, average, random) ==
  /\ ParticleSystemCall(updateParticles(particleSystem, deltaTime, average, random))
  /\ lastOp' = "ParticleSystem.update"
  /\ lastArg' = <<deltaTime, average, random>>

ParticleNext ==
  \/ \E random \in RandomInputs : Emit(random)
  \/ \E intensity \in IntensityInputs, random \in RandomInputs : Burst(intensity, random)
  \/ \E input \in ParticleUpdateInputs, random \in RandomInputs :
       UpdateParticles(input[1], input[2], random)

ParticleSpec == Init /\ [][ParticleNext]_vars

(***************************************************************************)
(* Behaviours of an AudioReactiveSpace: its methods are called in any      *)
(* order and the browser runs the callbacks of the pending animation frame *)
(* requests, at most MaxFrameRequests requests being made.                 *)
(***************************************************************************)
\* A call of a method of the app that leaves r.app and r.environment
AppCall(r) ==
  /\ r.environment.requested <= MaxFrameRequests
  /\ app' = r.app
  /\ environment' = r.environment
  /\ returned' = r.result
  /\ lastArg' = 0
  /\ UNCHANGED <<fields, lastSmoothed, frames, clearedAt, held, moodEngine,
                 visualizer, particleSystem, ui>>

\* init(), which runs once
AppInit(succeeds) ==
  /\ ~app.isInitialized
  /\ AppCall(init(app, environment, succeeds))
  /\ lastOp' = "init"

\* start()
AppStart ==
  /\ AppCall(start(app, environment))
  /\ lastOp' = "start"

\* togglePause()
TogglePause ==
  /\ AppCall(togglePause(app, environment))
  /\ lastOp' = "togglePause"

\* The browser runs the callback of a pending request: animate()
AnimationFrame ==
  /\ \E id \in environment.pending :
       AppCall(animate(app, [environment EXCEPT !.pending = environment.pending \ {id}]))
  /\ lastOp' = "animate"

\* dispose() of the app
AppDispose ==
  /\ AppCall(dispose(app, environment))
  /\ lastOp' = "AudioReactiveSpace.dispose"

AppNext ==
  \/ \E succeeds \in BOOLEAN : AppInit(succeeds)
  \/ AppStart
  \/ TogglePause
  \/ AnimationFrame
  \/ AppDispose

AppSpec == Init /\ [][AppNext]_vars

(***************************************************************************)
(* Behaviours of a UIManager: the user uploads files and presses the       *)
(* playback buttons, the audioManager being called at most MaxAudioCalls   *)
(* times.                                                                  *)
(***************************************************************************)
\* A call of a method of the UIManager that leaves r.ui and r.audioManager
UICall(r) ==
  /\ Len(r.audioManager.calls) <= MaxAudioCalls
  /\ ui' = r.ui
  /\ environment' = [environment EXCEPT !.audioManager = r.audioManager]
  /\ returned' = Undefined
  /\ UNCHANGED <<fields, lastSmoothed, frames, clearedAt, held, moodEngine,
                 visualizer, particleSystem, app>>

\* handleFileUpload(event)
HandleFileUpload(files, created) ==
  /\ UICall(handleFileUpload(ui, environment.audioManager, files, created))
  /\ lastOp' = "handleFileUpload"
  /\ lastArg' = files

\* play()
Play ==
  /\ UICall(play(ui, environment.audioManager))
  /\ lastOp' = "play"
  /\ lastArg' = 0

\* pause()
Pause ==
  /\ UICall(pause(ui, environment.audioManager))
  /\ lastOp' = "pause"
  /\ lastArg' = 0

\* stop()
Stop ==
  /\ UICall(stop(ui, environment.audioManager))
  /\ lastOp' = "stop"
  /\ lastArg' = 0

\* The audioManager gains or loses its audioElement outside the UIManager
AudioElementChanges ==
  /\ environment' = [environment EXCEPT
                       !.audioManager.audioElement = ~environment.audioManager.audioElement]
  /\ lastOp' = "audioManager"
  /\ lastArg' = 0
  /\ returned' = Undefined
  /\ UNCHANGED <<fields, lastSmoothed, frames, clearedAt, held, moodEngine,
                 visualizer, particleSystem, app, ui>>

UINext ==
  \/ \E files \in FileInputs, created \in BOOLEAN : HandleFileUpload(files, created)
  \/ Play
  \/ Pause
  \/ Stop
  \/ AudioElementChanges

UISpec == Init /\ [][UINext]_vars

(***************************************************************************)
(* Properties.                                                             *)
(***************************************************************************)
\* totalEnergy of a frame, in units of 1/(255*N): the sum of its bytes
FrameEnergy(f) == SumSeq(f)

\* Number of update() calls since construction or the last dispose()
UpdatesSinceClear == Len(frames) - clearedAt

\* The frames the history is expected to hold: the last
\* min(UpdatesSinceClear, maxHistoryLength) frames, oldest first
ExpectedFrames ==
  LET m == Min(UpdatesSinceClear, maxHistoryLength)
  IN [j \in 1..m |-> frames[Len(frames) - m + j]]

\* C1: frequencyHistory and energyHistory have the same length, which never
\* exceeds maxHistoryLength, and which is exactly maxHistoryLength once more
\* than maxHistoryLength updates have run on the history.
HistoryLengthBounded ==
  /\ Len(frequencyHistory) = Len(energyHistory)
  /\ Len(frequencyHistory) <= maxHistoryLength
  /\ UpdatesSinceClear > maxHistoryLength => Len(frequencyHistory) = maxHistoryLength

HistoryFullWitness ==
  /\ lastOp = "update"
  /\ UpdatesSinceClear > maxHistoryLength
  /\ Len(frequencyHistory) = maxHistoryLength

\* C2: the history is a FIFO: it holds the (normalized spectrum, totalEnergy)
\* pairs of the last min(k, maxHistoryLength) frames in chronological order,
\* the spectrum and the energy at one index belonging to the same frame.
HistoryIsFifo ==
  /\ Len(frequencyHistory) = Len(ExpectedFrames)
  /\ Len(energyHistory) = Len(ExpectedFrames)
  /\ \A j \in 1..Len(ExpectedFrames) :
       /\ frequencyHistory[j] = [i \in 1..NumBins |-> Fraction(ExpectedFrames[j][i], 255)]
       /\ energyHistory[j] = FrameEnergy(ExpectedFrames[j])

OldestEvictedWitness ==
  /\ lastOp = "update"
  /\ UpdatesSinceClear > maxHistoryLength
  /\ \A j \in 1..Len(frequencyHistory) :
       frequencyHistory[j] # NormalizedFrequency(frames[Len(frames) - maxHistoryLength])
  /\ frequencyHistory[1] # frequencyHistory[Len(frequencyHistory)]
  /\ energyHistory[1] # energyHistory[Len(energyHistory)]

\* C3: the first update after construction publishes flux 0; an update that
\* follows another update on the same history publishes the flux between its
\* spectrum and the preceding update's spectrum, which is > 0 when the two
\* spectra differ in a bin.
FluxAgainstPreviousFrame ==
  lastOp = "update" =>
    LET k == Len(frames)
    IN /\ k = 1 => stats.spectralFlux = 0
       /\ UpdatesSinceClear > 1 =>
            /\ stats.spectralFlux =
                 SumSeq([i \in 1..NumBins |-> (frames[k][i] - frames[k - 1][i])
                                                * (frames[k][i] - frames[k - 1][i])])
            /\ (\E i \in 1..NumBins : frames[k][i] # frames[k - 1][i])
                 => stats.spectralFlux > 0

FluxWitness ==
  /\ lastOp = "update"
  /\ UpdatesSinceClear > 2
  /\ frames[Len(frames)] # frames[Len(frames) - 1]
  /\ frames[Len(frames)] = frames[Len(frames) - 2]
  /\ stats.spectralFlux > 0

\* C4: an update that runs on an empty history publishes flux 0.
FluxZeroOnEmptyHistory ==
  (lastOp = "update" /\ UpdatesSinceClear = 1) => stats.spectralFlux = 0

\* C5: after dispose() the history is empty, prevEnergy is 0 and isBeat is
\* false.
DisposeResetsBeatState ==
  lastOp = "dispose" =>
    /\ frequencyHistory = <<>>
    /\ energyHistory = <<>>
    /\ prevEnergy = 0
    /\ isBeat = FALSE

\* The energies the history held before the last update appended its frame
BaselineEnergies ==
  LET k == Len(frames)
      lo == Max(clearedAt, k - 1 - maxHistoryLength) + 1
  IN [j \in 1..(k - lo) |-> FrameEnergy(frames[lo + j - 1])]

\* C6: after an update, isBeat holds exactly when the frame's energy exceeds
\* beatThreshold times the mean of the energies stored before the frame was
\* appended (0 for an empty history) and exceeds the previous update's energy
\* (0 initially).
BeatRule ==
  lastOp = "update" =>
    LET k == Len(frames)
        currentEnergy == FrameEnergy(frames[k])
        previousEnergy == IF k > 1 THEN FrameEnergy(frames[k - 1]) ELSE 0
        n == Len(BaselineEnergies)
        aboveThreshold ==
          IF n = 0 THEN currentEnergy > 0
          ELSE 10 * n * currentEnergy > beatThreshold * SumSeq(BaselineEnergies)
    IN isBeat <=> (aboveThreshold /\ currentEnergy > previousEnergy)

\* A frame that rises above the previous one and is no beat: the threshold
\* against the stored baseline alone rejects it.
BeatRuleWitness ==
  /\ lastOp = "update"
  /\ ~isBeat
  /\ Len(frames) > 1
  /\ Len(BaselineEnergies) > 0
  /\ FrameEnergy(frames[Len(frames)]) > FrameEnergy(frames[Len(frames) - 1])

\* C7: prevEnergy is the totalEnergy of the last update (0 before the first),
\* with or without a beat, and no setter or dispose changes it.
PrevEnergyIsLastEnergy ==
  /\ prevEnergy = IF frames = <<>> THEN 0 ELSE FrameEnergy(frames[Len(frames)])
  /\ prevEnergy = stats.totalEnergy

PrevEnergyWitness ==
  /\ lastOp \in {"setBeatThreshold", "setBeatSensitivity", "dispose"}
  /\ ~isBeat
  /\ Len(frames) > 1
  /\ prevEnergy > 0
  /\ prevEnergy # FrameEnergy(frames[Len(frames) - 1])

\* C8: after an update, getBeatEnergy() is totalEnergy * beatSensitivity when
\* isBeatDetected() and totalEnergy itself otherwise (both in tenths of the
\* energy unit).
BeatEnergyRule ==
  lastOp = "update" =>
    getBeatEnergy = IF isBeatDetected THEN getStats.value.totalEnergy * beatSensitivity
                    ELSE getStats.value.totalEnergy * 10

BeatEnergyWitness ==
  /\ lastOp = "update"
  /\ Len(frames) > 1
  /\ ~isBeatDetected
  /\ beatSensitivity # 10
  /\ getBeatEnergy > 0

\* C9: an update that finds the history empty or holding only zero energies,
\* finds prevEnergy = 0 and brings a frame of positive energy sets isBeat.
FirstEnergizedFrameIsBeat ==
  [][(/\ frames' # frames
      /\ \A j \in 1..Len(energyHistory) : energyHistory[j] = 0
      /\ prevEnergy = 0
      /\ stats'.totalEnergy > 0) => isBeat']_vars

FirstEnergizedWitness ==
  /\ lastOp = "update"
  /\ isBeat
  /\ beatThreshold = 10
  /\ UpdatesSinceClear > 1
  /\ \A j \in 1..(Len(frames) - 1) : FrameEnergy(frames[j]) = 0

\* Every setter call is accepted
SettersEnabled ==
  /\ \A x \in ThresholdInputs : ENABLED SetBeatThreshold(x)
  /\ \A x \in SensitivityInputs : ENABLED SetBeatSensitivity(x)

\* What a setter call stores and what it leaves alone
SetterStep ==
  /\ lastOp' = "setBeatThreshold" =>
       /\ beatThreshold' = Min(10, Max(0, lastArg'))
       /\ UNCHANGED beatSensitivity
  /\ lastOp' = "setBeatSensitivity" =>
       /\ beatSensitivity' = Min(20, Max(5, lastArg'))
       /\ UNCHANGED beatThreshold
  /\ lastOp' \in {"setBeatThreshold", "setBeatSensitivity"} =>
       UNCHANGED <<audioContext, analyser, dataArrayFrequency, dataArrayTime,
                   prevEnergy, isBeat, beatEnergy, frequencyHistory, energyHistory,
                   peakHistory, frequencyBands, stats>>

UnknownBandIsZero ==
  /\ [](\A name \in BandNameInputs \ BandNames :
          getBandEnergy(name) = Number(Zero) /\ ENABLED GetBandEnergy(name))
  /\ [][lastOp' = "getBandEnergy" =>
          /\ UNCHANGED fields
          /\ lastArg' \notin BandNames => returned' = Number(Zero)]_vars

UnknownBandWitness ==
  /\ lastOp = "getBandEnergy"
  /\ lastArg = "nonexistent"
  /\ returned = Number(Zero)
  /\ \E name \in BandNames : frequencyBands[name] # Zero

\* C12: every band energy is >= 0 in every state, and an update leaves in
\* each band what its own frame puts there: a silent frame leaves 0 in every
\* band whatever the bands held, and a frame equal to the one before leaves
\* the band energies as they were.
BandEnergiesOfCurrentFrame ==
  /\ [](\A name \in BandNames : frequencyBands[name].n >= 0 /\ frequencyBands[name].d > 0)
  /\ [][frames' # frames =>
          /\ (\A i \in 1..NumBins : dataArrayFrequency'[i] = 0)
               => \A name \in BandNames : frequencyBands'[name] = Zero
          /\ (frames # <<>> /\ dataArrayFrequency' = dataArrayFrequency)
               => frequencyBands' = frequencyBands]_vars

BandEnergiesWitness ==
  /\ lastOp = "update"
  /\ Len(frames) = 2
  /\ frames[1] = frames[2]
  /\ \E name \in BandNames : frequencyBands[name] # Zero

\* The bins i (counted from 0) with lowHz <= i * binWidth < highHz
BinsIn(lowHz, highHz) ==
  {i \in 0..(NumBins - 1) : lowHz <= i * binWidth /\ i * binWidth < highHz}

RECURSIVE SumOfBins(_, _)
\* The sum of the bytes of frame f over the bins of the set S
SumOfBins(f, S) ==
  IF S = {} THEN 0
  ELSE LET i == CHOOSE x \in S : TRUE IN f[i + 1] + SumOfBins(f, S \ {i})

\* The least whole number k with k * b >= a, for a >= 0 and b > 0
LeastMultiple(a, b) ==
  CHOOSE k \in (a \div b)..(a \div b + 1) : k * b >= a /\ (k - 1) * b < a

\* C13: once a frame is analysed, the energy of each band is the sum of
\* value/255 over the bins with lowHz <= i * binWidth < highHz, divided by
\* max(ceil((highHz - lowHz) / binWidth), 1); every bin lies in at most one
\* band, a bin below 20 Hz or at or above 20000 Hz lies in none, and the
\* sums of the bands add up to the sum over the bins from 20 Hz to below
\* 20000 Hz.  (Energies in units of 1/255.)
BandEnergyFormula ==
  frames # <<>> =>
    LET f == frames[Len(frames)]
        bins(b) == BinsIn(Bands[b].min, Bands[b].max)
        divisor(b) == Max(LeastMultiple(Bands[b].max - Bands[b].min, binWidth), 1)
        energy(b) == frequencyBands[Bands[b].name]
    IN /\ \A b \in 1..Len(Bands) : energy(b).n * divisor(b) = energy(b).d * SumOfBins(f, bins(b))
       /\ \A i \in 0..(NumBins - 1) :
            /\ Cardinality({b \in 1..Len(Bands) : i \in bins(b)}) <= 1
            /\ (i * binWidth < 20 \/ i * binWidth >= 20000)
                 => \A b \in 1..Len(Bands) : i \notin bins(b)
       /\ SumSeq([b \in 1..Len(Bands) |-> (energy(b).n * divisor(b)) \div energy(b).d])
            = SumOfBins(f, BinsIn(20, 20000))

\* A bin at 60 Hz, the limit between subBass and bass, counted in bass alone
BandLimitWitness ==
  /\ lastOp = "update"
  /\ binWidth = 60
  /\ frames[Len(frames)][2] = 255
  /\ frequencyBands["subBass"] = Zero
  /\ frequencyBands["bass"] # Zero

\* C14: every division has a denominator other than zero: the band energies
\* are numbers in every state, and getFrequencyRangeEnergy returns a number
\* for every range, one of no width or with exchanged limits included.
DivisionsGuarded ==
  /\ \A name \in BandNames : frequencyBands[name].d > 0
  /\ lastOp = "getFrequencyRangeEnergy" => returned.kind = "number"

\* The entropy is 0: none of its terms -(p * log2 p) has a p other than 1
EntropyIsZero(terms) == \A j \in 1..Len(terms) : terms[j] = [n |-> 1, d |-> 1]

\* C15: an update with an all-zero spectrum publishes spectralCentroid 0,
\* entropy 0, spectralSpread 0, totalEnergy 0 and peakFrequency 0 and flags
\* no beat, whatever the history holds.
SilentFrameIsNeutral ==
  (lastOp = "update" /\ \A i \in 1..NumBins : frames[Len(frames)][i] = 0) =>
    /\ stats.spectralCentroid = Zero
    /\ EntropyIsZero(stats.entropy)
    /\ stats.spectralSpread = Zero
    /\ stats.totalEnergy = 0
    /\ stats.peakFrequency = 0
    /\ ~isBeat

\* Silence after a loud frame and after a silent one, with the threshold at 0
SilentFrameWitness ==
  /\ lastOp = "update"
  /\ Len(frames) = 3
  /\ UpdatesSinceClear = 3
  /\ beatThreshold = 0
  /\ FrameEnergy(frames[1]) > 0
  /\ FrameEnergy(frames[2]) = 0
  /\ FrameEnergy(frames[3]) = 0
  /\ ~isBeat

\* C16: after an update, peakFrequency is i * binWidth for the lowest bin i
\* (counted from 0) that holds the largest value of the frame, whatever the
\* frames before it were.
PeakIsFirstMaximum ==
  lastOp = "update" =>
    LET f == frames[Len(frames)]
        largest == CHOOSE v \in {f[i] : i \in 1..NumBins} : \A i \in 1..NumBins : f[i] <= v
        first == CHOOSE i \in 0..(NumBins - 1) :
                   /\ f[i + 1] = largest
                   /\ \A j \in 0..(i - 1) : f[j + 1] # largest
    IN stats.peakFrequency = first * binWidth

\* A frame of equal bins after a frame whose peak was the last bin
PeakTieWitness ==
  /\ lastOp = "update"
  /\ Len(frames) = 2
  /\ frames[1] = Single(NumBins, 255)
  /\ frames[2] = [i \in 1..NumBins |-> 128]
  /\ stats.peakFrequency = 0

\* C17: after an update, zeroCrossingRate is the number of indices i >= 1
\* for which exactly one of waveform[i] and waveform[i-1] is >= 128, over the
\* waveform length M; it is (M-1)/M for the waveform alternating between 255
\* and 1 and 0 for a constant waveform.
ZeroCrossingRule ==
  lastOp = "update" =>
    LET w == dataArrayTime
        M == Len(w)
        crossings == Cardinality({i \in 2..M : (w[i] >= 128) # (w[i - 1] >= 128)})
        rate == stats.zeroCrossingRate
    IN /\ rate.n * M = crossings * rate.d
       /\ w = [i \in 1..M |-> IF i % 2 = 1 THEN 255 ELSE 1] => rate.n * M = (M - 1) * rate.d
       /\ (\A i \in 1..M : w[i] = w[1]) => rate = Zero

\* A waveform stepping from byte 128 to byte 127: a crossing
ZeroCrossingWitness ==
  /\ lastOp = "update"
  /\ dataArrayTime[1] = 128
  /\ dataArrayTime[2] = 127
  /\ stats.zeroCrossingRate # Zero

\* C18: an update with a spectrum of exactly one non-zero bin, whatever its
\* index and value, publishes entropy 0: the only term of the sum has
\* probability 1.
SingleBinEntropyIsZero ==
  (lastOp = "update"
     /\ Cardinality({i \in 1..NumBins : frames[Len(frames)][i] # 0}) = 1) =>
    /\ EntropyIsZero(stats.entropy)
    /\ Len(stats.entropy) = 1

\* The last bin alone at value 1, after a frame of entropy above 0
SingleBinWitness ==
  /\ lastOp = "update"
  /\ Len(frames) = 2
  /\ frames[1] = [i \in 1..NumBins |-> 255]
  /\ frames[2] = Single(NumBins, 1)
  /\ stats.entropy = <<[n |-> 1, d |-> 1]>>

\* C19: a stored history entry keeps its value until it is evicted: an
\* update overwrites the working buffer and leaves the entries that stay as
\* they were, the getters change no field, and a caller writing the object
\* or array a getter returned changes no field, the history and the stats
\* included.
HistoryEntriesImmutable ==
  [][/\ frames' # frames =>
          LET kept == Len(frequencyHistory') - 1
              evicted == Len(frequencyHistory) - kept
          IN /\ evicted \in {0, 1}
             /\ \A j \in 1..kept :
                  /\ frequencyHistory'[j] = frequencyHistory[j + evicted]
                  /\ energyHistory'[j] = energyHistory[j + evicted]
     /\ lastOp' \in {"getStats", "getFrequencyData", "callerWrites"} => UNCHANGED fields]_vars

\* The caller has written the kept stats object while the history is full
\* and the buffer has been overwritten by a different frame since the
\* oldest entry was stored
CallerWriteWitness ==
  /\ lastOp = "callerWrites"
  /\ held.class = "Object"
  /\ held.value.totalEnergy = -1
  /\ stats.totalEnergy > 0
  /\ Len(frequencyHistory) = maxHistoryLength
  /\ UpdatesSinceClear > maxHistoryLength
  /\ frequencyHistory[1] # NormalizedFrequency(dataArrayFrequency)

\* C20: an update that finds the node delivering a spectrum of a length
\* other than the configured bin count fails with an error and leaves the
\* history, the stats and the beat state unchanged.
MismatchFailsFast ==
  [][(lastOp' = "update" /\ analyser.frequencyBinCount # Len(dataArrayFrequency)) =>
       /\ returned'.kind = "error"
       /\ UNCHANGED <<frequencyHistory, energyHistory, stats, isBeat, beatEnergy,
                      prevEnergy>>]_vars

\* C21: the stats an update publishes are those the same frame and the same
\* stored history give on stats as the constructor builds them: they do not
\* depend on the stats held before the update.
StatsIgnoreOldStats ==
  [][frames' # frames =>
       stats' = calculateTimeAnalysis(dataArrayTime', dataArrayFrequency',
                  calculateSpectralAnalysis(dataArrayFrequency', frequencyHistory,
                                            InitialStats))]_vars

MoodCallStep(op) == lastOp' = op /\ environment'.now = environment.now

\* C23: changeMood(m) returns false, leaves the engine as it is and notifies
\* nobody when m is no mood, is the current mood, or a transition is in
\* progress; otherwise it returns true, makes m the current mood, sets
\* isTransitioning and the start time and notifies one moodChangeStarted
\* with the previous and the new mood.  currentMood is always a mood.
ChangeMoodContract ==
  /\ [](moodEngine.currentMood \in {"calm", "energetic", "heartbreak"})
  /\ [][MoodCallStep("changeMood") =>
          LET m == lastArg'
          IN IF \/ m \notin {"calm", "energetic", "heartbreak"}
                \/ m = moodEngine.currentMood
                \/ moodEngine.isTransitioning
               THEN /\ returned' = Boolean(FALSE)
                    /\ UNCHANGED <<moodEngine, environment>>
               ELSE /\ returned' = Boolean(TRUE)
                    /\ moodEngine'.currentMood = m
                    /\ moodEngine'.isTransitioning
                    /\ moodEngine'.transitionStartTime = environment.now
                    /\ environment'.notified =
                         Append(environment.notified,
                                [type |-> "moodChangeStarted",
                                 from |-> moodEngine.currentMood, to |-> m])]_vars

\* A change to another mood rejected during the second transition
ChangeMoodWitness ==
  /\ lastOp = "changeMood"
  /\ lastArg = "calm"
  /\ returned = Boolean(FALSE)
  /\ moodEngine.isTransitioning
  /\ moodEngine.currentMood = "heartbreak"
  /\ Len(environment.notified) = 3

\* The mood that was current before the transition in progress: the origin
\* of the last moodChangeStarted
MoodBeforeTransition ==
  LET started == {i \in 1..Len(environment.notified) :
                    environment.notified[i].type = "moodChangeStarted"}
      last == CHOOSE i \in started : \A j \in started : j <= i
  IN environment.notified[last].from

\* C24: polled while a transition is in progress (progress < 1),
\* getInterpolatedMoodData() returns the interpolation from the mood that
\* was current before the transition to the current mood.
InterpolatesFromPreviousMood ==
  [][(/\ MoodCallStep("getInterpolatedMoodData")
      /\ moodEngine.isTransitioning
      /\ getTransitionProgress(moodEngine, environment.now) # [n |-> 1, d |-> 1]) =>
       returned' = interpolateMoods(moodEngine, MoodBeforeTransition,
                                    moodEngine.currentMood,
                                    getTransitionProgress(moodEngine, environment.now))]_vars

\* C25: after reset() the current mood is calm.
ResetGivesCalm ==
  lastOp = "reset" => moodEngine.currentMood = "calm"

\* The events notified so far alternate between moodChangeStarted and
\* moodChangeComplete, beginning with moodChangeStarted
EventsAlternate ==
  \A i \in 1..Len(environment.notified) :
    environment.notified[i].type =
      IF i % 2 = 1 THEN "moodChangeStarted" ELSE "moodChangeComplete"

\* C26: a transition that starts early enough for its duration to elapse
\* on the clock ends; each moodChangeStarted is followed by one
\* moodChangeComplete before the next moodChangeStarted, the last one
\* lacking its moodChangeComplete exactly while isTransitioning; and
\* isTransitioning is cleared only by a poll after the duration has elapsed.
TransitionCompletes ==
  /\ (moodEngine.isTransitioning
        /\ moodEngine.transitionStartTime + moodTransitionDuration <= MaxTime)
       ~> ~moodEngine.isTransitioning
  /\ [](EventsAlternate
         /\ (moodEngine.isTransitioning <=> Len(environment.notified) % 2 = 1))
  /\ [][(moodEngine.isTransitioning /\ ~moodEngine'.isTransitioning) =>
          /\ lastOp' = "getInterpolatedMoodData"
          /\ environment.now - moodEngine.transitionStartTime >= moodTransitionDuration]_vars

\* Two transitions started and completed
TransitionWitness ==
  /\ ~moodEngine.isTransitioning
  /\ Len(environment.notified) = 4
  /\ environment.notified[3].from = "energetic"
  /\ moodEngine.currentMood = "heartbreak"
  /\ lastOp = "getInterpolatedMoodData"

\* The value the smoothing is to give: current + (target - current) * (1 - smoothingFactor)
Smoothed(current, target, smoothingFactor) ==
  Plus(current, Times(Minus(target, current), Minus(One, smoothingFactor)))

\* C27: updateAudioData sets each of smoothedAudio.bass, mid, treble and
\* average to current + (target - current) * (1 - smoothingFactor), current
\* being the smoothed value before the call and target the band value of
\* the frequency data.
SmoothingApplied ==
  [][lastOp' = "updateAudioData" =>
       \A k \in {"bass", "mid", "treble", "average"} :
         visualizer'.smoothedAudio[k] =
           Smoothed(visualizer.smoothedAudio[k], visualizer'.audioData[k],
                    visualizer.config.smoothingFactor)]_vars

\* The particles of a sequence that are alive: life > 0
Alive(particles) == SelectSeq(particles, LAMBDA p : p.life.n > 0)

\* C28: particles.length never exceeds maxParticles, and update() leaves
\* exactly the particles that existed before the call and whose life is
\* still above 0 after ageing, in their order, followed by new particles of
\* life 1: no particle whose life dropped to 0 or below remains.
ParticlesBounded ==
  /\ [](Len(particleSystem.particles) <= maxParticles)
  /\ [][lastOp' = "ParticleSystem.update" =>
          LET survivors == Alive([i \in 1..Len(particleSystem.particles) |->
                                    Aged(particleSystem.particles[i], lastArg'[1])])
              after == particleSystem'.particles
          IN /\ Len(after) >= Len(survivors)
             /\ SubSeq(after, 1, Len(survivors)) = survivors
             /\ \A i \in (Len(survivors) + 1)..Len(after) :
                  after[i].life = [n |-> 1, d |-> 1]
             /\ \A i \in 1..Len(after) : after[i].life.n > 0]_vars

\* An update has removed the dead particles of a burst, kept the others and
\* filled the system to its capacity
ParticlesWitness ==
  /\ lastOp = "ParticleSystem.update"
  /\ Len(particleSystem.particles) = maxParticles
  /\ \E i \in 1..Len(particleSystem.particles) :
       particleSystem.particles[i].life = [n |-> 1, d |-> 5]

\* C29: at most one animate callback is pending at any time, and right
\* after dispose() none is pending and isRunning is false.
OneAnimationLoop ==
  /\ Cardinality(environment.pending) <= 1
  /\ lastOp = "AudioReactiveSpace.dispose" =>
       environment.pending = {} /\ ~app.isRunning

\* The playback commands the audioManager has received, in order
PlaybackCommands ==
  SelectSeq(environment.audioManager.calls, LAMBDA c : c \in {"play", "pause", "stop"})

\* The upload of lastArg is rejected: no file, or a file that is not audio
Rejected(files) == Len(files) = 0 \/ ~StartsWithAudio(files[1].type)

\* C30: isPlaying is true exactly when the last playback command handed to
\* the audioManager is play; play() without an uploaded file and without an
\* audioElement changes nothing and calls nothing, any other play() calls
\* audioManager.play() and sets isPlaying; pause() and stop() clear it; the
\* upload of a file that is not audio changes neither currentFile nor
\* isPlaying.
PlayingFollowsCommands ==
  /\ [](ui.isPlaying <=>
          /\ PlaybackCommands # <<>>
          /\ PlaybackCommands[Len(PlaybackCommands)] = "play")
  /\ [][/\ lastOp' = "play" =>
             IF ui.currentFile = Null /\ ~environment.audioManager.audioElement
               THEN ui' = ui /\ environment' = environment
               ELSE /\ ui'.isPlaying
                    /\ environment'.audioManager.calls =
                         Append(environment.audioManager.calls, "play")
        /\ lastOp' \in {"pause", "stop"} => ~ui'.isPlaying
        /\ lastOp' = "handleFileUpload" /\ Rejected(lastArg') => ui' = ui]_vars

\* While playing resumed after a pause, a file that is not audio was offered
PlayingWitness ==
  /\ lastOp = "handleFileUpload"
  /\ lastArg # <<>>
  /\ Rejected(lastArg)
  /\ ui.isPlaying
  /\ ui.currentFile # Null
  /\ \E i \in 1..Len(PlaybackCommands) : PlaybackCommands[i] = "pause"

=============================================================================
